---- MODULE Spec2Model ----
(***************************************************************************)
(* tidy-notes (src/main.py): a folder of markdown notes is enumerated and  *)
(* every note gets a front-matter block with Created, Title and            *)
(* Description.  Text is modelled as sequences of one-character strings.   *)
(* A note file is the record [kind, fm, rest]: kind says whether the text  *)
(* opens with a front-matter block ("block"), with a block whose YAML      *)
(* does not parse ("malformed"), or with none ("plain"); fm maps each key  *)
(* of the block to its YAML scalar as written; rest is the text after the  *)
(* closing delimiter (the whole text when there is no block).              *)
(***************************************************************************)
EXTENDS Integers, Sequences, FiniteSets, TLC

VARIABLES folder, disk, stat, pc, err, runs, enum, idx, log, writes, gens,
          passes, probe

vars == <<folder, disk, stat, pc, err, runs, enum, idx, log, writes, gens,
          passes, probe>>

\* ------------------------------------------------------------------ bounds

\* Runs of main() in one behaviour.
MaxRuns == 2

\* Longest filename stem the title derivation is probed with.
MaxStemLen == 3

\* describe_text: text[:2000]
ExcerptLimit == 2000

\* ------------------------------------------------------------- characters

LowerLetters == <<"a","b","c","d","e","f","g","h","i","j","k","l","m",
                  "n","o","p","q","r","s","t","u","v","w","x","y","z">>

UpperLetters == <<"A","B","C","D","E","F","G","H","I","J","K","L","M",
                  "N","O","P","Q","R","S","T","U","V","W","X","Y","Z">>

DigitChars == <<"0","1","2","3","4","5","6","7","8","9">>

IsLower(c) == \E i \in 1..26 : LowerLetters[i] = c

IsUpper(c) == \E i \in 1..26 : UpperLetters[i] = c

IsCased(c) == IsLower(c) \/ IsUpper(c)

IsDigit(c) == \E i \in 1..10 : DigitChars[i] = c

IsSpace(c) == c \in {" ", "\n", "\t"}

ToUpper(c) == IF IsLower(c)
              THEN UpperLetters[CHOOSE i \in 1..26 : LowerLetters[i] = c]
              ELSE c

ToLower(c) == IF IsUpper(c)
              THEN LowerLetters[CHOOSE i \in 1..26 : UpperLetters[i] = c]
              ELSE c

Take(s, n) == SubSeq(s, 1, IF Len(s) < n THEN Len(s) ELSE n)

Drop(s, n) == SubSeq(s, n + 1, Len(s))

RECURSIVE LeadingSpaces(_, _)
\* The number of whitespace characters s has from position i on, before the
\* first character that is none.
LeadingSpaces(s, i) ==
    IF i > Len(s) \/ ~IsSpace(s[i]) THEN 0 ELSE 1 + LeadingSpaces(s, i + 1)

RECURSIVE TrailingSpaces(_, _)
\* The number of whitespace characters s has up to position i, after the
\* last character that is none.
TrailingSpaces(s, i) ==
    IF i < 1 \/ ~IsSpace(s[i]) THEN 0 ELSE 1 + TrailingSpaces(s, i - 1)

\* str.rstrip()
RStrip(s) == SubSeq(s, 1, Len(s) - TrailingSpaces(s, Len(s)))

\* str.strip(): leading and trailing whitespace removed.
Strip(s) == SubSeq(s, LeadingSpaces(s, 1) + 1,
                      Len(s) - TrailingSpaces(s, Len(s)))

\* str.replace(a, b) for one-character a and b.
Replace(s, a, b) == [i \in 1..Len(s) |-> IF s[i] = a THEN b ELSE s[i]]

RECURSIVE Digits(_)
\* str(n) for a natural number n.
Digits(n) == IF n < 10 THEN <<DigitChars[n + 1]>>
             ELSE Digits(n \div 10) \o <<DigitChars[(n % 10) + 1]>>

RECURSIVE ToNat(_)
\* int(s) for a string of decimal digits.
ToNat(s) == IF s = <<>> THEN 0
            ELSE 10 * ToNat(SubSeq(s, 1, Len(s) - 1))
                 + ((CHOOSE i \in 1..10 : DigitChars[i] = s[Len(s)]) - 1)

RECURSIVE Pad(_, _)
\* Zero padding to width w, as %Y, %m and %d pad.
Pad(s, w) == IF Len(s) >= w THEN s ELSE Pad(<<"0">> \o s, w)

AllDigits(s) == s # <<>> /\ \A i \in 1..Len(s) : IsDigit(s[i])

\* datetime.strftime('%Y-%m-%d')
Strftime(d) == Pad(Digits(d.y), 4) \o <<"-">> \o Pad(Digits(d.m), 2)
               \o <<"-">> \o Pad(Digits(d.d), 2)

\* YYYY-MM-DD
IsDateText(s) == /\ Len(s) = 10
                 /\ \A i \in {1, 2, 3, 4, 6, 7, 9, 10} : IsDigit(s[i])
                 /\ s[5] = "-" /\ s[8] = "-"

\* ------------------------------------------------- metadata values (YAML)

\* A metadata value in memory: a str, an int, a bool, a date or None.
StrV(s) == [t |-> "str", s |-> s, n |-> 0]

IntV(n) == [t |-> "int", s |-> <<>>, n |-> n]

BoolV(b) == [t |-> "bool", s |-> <<>>, n |-> IF b THEN 1 ELSE 0]

DateV(s) == [t |-> "date", s |-> s, n |-> 0]

NoneV == [t |-> "none", s |-> <<>>, n |-> 0]

\* A scalar as written in the block: plain or quoted.
Plain(s) == [q |-> FALSE, s |-> s]

Quoted(s) == [q |-> TRUE, s |-> s]

\* The spellings YAML 1.1 accepts for a word: w, W.capitalize(), W.upper().
Casings(w) == {w, <<ToUpper(w[1])>> \o Drop(w, 1),
               [i \in 1..Len(w) |-> ToUpper(w[i])]}

NullWords == Casings(<<"n","u","l","l">>) \cup {<<>>, <<"~">>}

TrueWords == Casings(<<"t","r","u","e">>) \cup Casings(<<"y","e","s">>)
             \cup Casings(<<"o","n">>)

FalseWords == Casings(<<"f","a","l","s","e">>) \cup Casings(<<"n","o">>)
              \cup Casings(<<"o","f","f">>)

\* The type PyYAML's resolver gives a plain scalar.
YamlResolve(s) ==
    IF s \in NullWords THEN "none"
    ELSE IF s \in TrueWords \cup FalseWords THEN "bool"
    ELSE IF AllDigits(s) THEN "int"
    ELSE IF IsDateText(s) THEN "date"
    ELSE "str"

\* yaml.load of one scalar: a quoted scalar is a str, a plain one is resolved.
YamlLoad(d) ==
    IF d.q THEN StrV(d.s)
    ELSE CASE YamlResolve(d.s) = "none" -> NoneV
           [] YamlResolve(d.s) = "bool" -> BoolV(d.s \in TrueWords)
           [] YamlResolve(d.s) = "int"  -> IntV(ToNat(d.s))
           [] YamlResolve(d.s) = "date" -> DateV(d.s)
           [] OTHER -> StrV(d.s)

\* str(v)
PyStr(v) ==
    CASE v.t = "str"  -> v.s
      [] v.t = "int"  -> Digits(v.n)
      [] v.t = "bool" -> IF v.n = 1 THEN <<"T","r","u","e">>
                         ELSE <<"F","a","l","s","e">>
      [] v.t = "date" -> v.s
      [] OTHER -> <<"N","o","n","e">>

\* yaml.dump of one scalar: a str is quoted when it would be read back as
\* something else, or when it starts or ends with whitespace.
YamlDump(v) ==
    CASE v.t = "str" ->
             IF \/ YamlResolve(v.s) # "str"
                \/ IsSpace(v.s[1]) \/ IsSpace(v.s[Len(v.s)])
             THEN Quoted(v.s) ELSE Plain(v.s)
      [] v.t = "none" -> Plain(<<"n","u","l","l">>)
      [] v.t = "bool" -> Plain(IF v.n = 1 THEN <<"t","r","u","e">>
                               ELSE <<"f","a","l","s","e">>)
      [] OTHER -> Plain(PyStr(v))

\* Python truthiness, as `not value` tests it.
Truthy(v) ==
    CASE v.t = "str"  -> v.s # <<>>
      [] v.t = "int"  -> v.n # 0
      [] v.t = "bool" -> v.n = 1
      [] v.t = "date" -> TRUE
      [] OTHER -> FALSE

\* dict.get(key): None when the key is absent.
Get(metadata, key) == IF key \in DOMAIN metadata THEN metadata[key] ELSE NoneV

\* metadata[key] = value
Put(metadata, key, value) ==
    [k \in (DOMAIN metadata) \cup {key} |->
        IF k = key THEN value ELSE metadata[k]]

\* ------------------------------------------------------------- note files

EmptyMap == [k \in {} |-> NoneV]

PlainText(rest) == [kind |-> "plain", fm |-> EmptyMap, rest |-> rest]

MalformedText(rest) == [kind |-> "malformed", fm |-> EmptyMap, rest |-> rest]

BlockText(fm, rest) == [kind |-> "block", fm |-> fm, rest |-> rest]

Delimiter == <<"-","-","-">>

KeyChars(k) ==
    CASE k = "Created"     -> <<"C","r","e","a","t","e","d">>
      [] k = "Description" -> <<"D","e","s","c","r","i","p","t","i","o","n">>
      [] k = "Tags"        -> <<"T","a","g","s">>
      [] OTHER             -> <<"T","i","t","l","e">>

\* yaml.dump writes the keys sorted.
KeyOrder == <<"Created", "Description", "Tags", "Title">>

ScalarChars(d) == IF d.q THEN <<"'">> \o d.s \o <<"'">> ELSE d.s

RECURSIVE BlockLines(_, _)
BlockLines(fm, i) ==
    IF i > Len(KeyOrder) THEN <<>>
    ELSE (IF KeyOrder[i] \in DOMAIN fm
          THEN KeyChars(KeyOrder[i]) \o <<":", " ">>
               \o ScalarChars(fm[KeyOrder[i]]) \o <<"\n">>
          ELSE <<>>) \o BlockLines(fm, i + 1)

\* The characters of a note file: what file.read() returns.
Chars(text) ==
    CASE text.kind = "plain" -> text.rest
      [] text.kind = "malformed" ->
             Delimiter \o <<"\n", "{", "\n">> \o Delimiter \o text.rest
      [] OTHER ->
             Delimiter \o <<"\n">> \o BlockLines(text.fm, 1) \o Delimiter
             \o text.rest

\* A loads that keeps the text after the block as it is.
FrontmatterLoadsKeepBody(text) ==
    [raised   |-> text.kind = "malformed",
     metadata |-> [k \in DOMAIN text.fm |-> YamlLoad(text.fm[k])],
     content  |-> text.rest]

\* frontmatter.loads: the block's mapping (empty without a block) and the
\* text after it, stripped; YAML that does not parse raises.
FrontmatterLoads(text) ==
    [raised   |-> text.kind = "malformed",
     metadata |-> [k \in DOMAIN text.fm |-> YamlLoad(text.fm[k])],
     content  |-> Strip(text.rest)]

\* frontmatter.dumps: delimiter, the dumped mapping, delimiter, a blank line,
\* the content; the whole stripped.
FrontmatterDumps(post) ==
    BlockText([k \in DOMAIN post.metadata |-> YamlDump(post.metadata[k])],
              RStrip(<<"\n", "\n">> \o post.content))

\* -------------------------------------------------------------- the notes

\* The notes of the folder, pytexas_2024.md and on.md, each named by its
\* filename stem.
Pytexas2024 == <<"p","y","t","e","x","a","s","_","2","0","2","4">>

On == <<"o","n">>

Files == {Pytexas2024, On}

\* No such file.
Absent == [kind |-> "absent", fm |-> EmptyMap, rest |-> <<>>]

Date(y, m, d) == [y |-> y, m |-> m, d |-> d]

Dates == {Date(2024, 3, 9), Date(2025, 11, 30)}

\* FileData
FileData(text, path, creation_date) ==
    [text |-> text, path |-> path, creation_date |-> creation_date]

\* get_file: FileNotFoundError for a missing path; else the text and the
\* creation time, st_birthtime where the platform has it, else st_ctime.
get_file(fs, st, file_path) ==
    [raised |-> fs[file_path].kind = "absent",
     data   |-> FileData(fs[file_path], file_path,
                         IF st[file_path].hasBirth THEN st[file_path].birth
                         ELSE st[file_path].ctime)]

\* What the agent run does when called: fails, or returns final_output.
GenOutputs == { <<>>, <<" ","d","\n">> }

GenResponses == {[fail |-> TRUE, out |-> <<>>]}
                \cup {[fail |-> FALSE, out |-> o] : o \in GenOutputs}

\* A describe_text that sends the whole text.
describe_text_whole(text, title, gen) ==
    [raised |-> gen.fail,
     call   |-> [title |-> title, excerpt |-> text],
     out    |-> gen.out]

\* describe_text: one agent run on the title and text[:2000]; its
\* final_output is returned as it is.
describe_text(text, title, gen) ==
    [raised |-> gen.fail,
     call   |-> [title |-> title, excerpt |-> Take(text, ExcerptLimit)],
     out    |-> gen.out]

RECURSIVE TitleFrom(_, _, _)
\* str.title(): a cased character is uppercased after an uncased one (or at
\* the start) and lowercased after a cased one.
TitleFrom(s, i, previous_is_cased) ==
    IF i > Len(s) THEN <<>>
    ELSE << IF previous_is_cased THEN ToLower(s[i]) ELSE ToUpper(s[i]) >>
         \o TitleFrom(s, i + 1, IsCased(s[i]))

\* A title() that capitalizes and leaves the following letters as they are.
StrTitleKeepRest(s) ==
    [i \in 1..Len(s) |->
        IF i = 1 \/ ~IsCased(s[i - 1]) THEN ToUpper(s[i]) ELSE s[i]]

StrTitle(s) == TitleFrom(s, 1, FALSE)

\* create_title: path.stem.title().replace('_', ' ')
create_title(file_data) == Replace(StrTitle(file_data.path), "_", " ")

\* An enrichment that sets Created whatever the block holds.
EnrichCreatedAlways(metadata, file_data) ==
    Put(metadata, "Created", StrV(Strftime(file_data.creation_date)))

\* process_post, lines 58-59: Created is set when it is missing or falsy.
EnrichCreated(metadata, file_data) ==
    IF ~Truthy(Get(metadata, "Created"))
    THEN Put(metadata, "Created", StrV(Strftime(file_data.creation_date)))
    ELSE metadata

\* process_post, lines 61-64: Title is derived when it is missing or falsy.
EnrichTitle(metadata, file_data) ==
    IF ~Truthy(Get(metadata, "Title"))
    THEN Put(metadata, "Title", StrV(create_title(file_data)))
    ELSE metadata

\* A local title taken as it is, a str or not.
TitleStringNoCoerce(title) == title.s

\* process_post, lines 67-68: the local title, made a str; the metadata
\* keeps the value it has.
TitleString(title) ==
    IF title.t = "str" THEN title.s
    ELSE IF title.t = "none" THEN <<>> ELSE PyStr(title)

\* A description step that always calls describe_text.
NeedsDescriptionAlways(metadata) == TRUE

\* process_post, line 71: whether describe_text is called.
NeedsDescription(metadata) == ~Truthy(Get(metadata, "Description"))

\* process_post: the post after enrichment, the generator calls made and
\* what they returned, or what was raised (with the post as it was in
\* memory then).
process_post(file_data, gen) ==
    LET loaded == FrontmatterLoads(file_data.text)
        m1 == EnrichCreated(loaded.metadata, file_data)
        m2 == EnrichTitle(m1, file_data)
        title == TitleString(Get(m2, "Title"))
        d == describe_text(Chars(file_data.text), title, gen)
    IN  IF loaded.raised
        THEN [raised |-> "YAMLError", calls |-> <<>>, outputs |-> <<>>,
              post |-> [metadata |-> EmptyMap, content |-> <<>>]]
        ELSE IF ~NeedsDescription(m2)
        THEN [raised |-> "none", calls |-> <<>>, outputs |-> <<>>,
              post |-> [metadata |-> m2, content |-> loaded.content]]
        ELSE IF d.raised
        THEN [raised |-> "GenerationError", calls |-> <<d.call>>,
              outputs |-> <<>>,
              post |-> [metadata |-> m2, content |-> loaded.content]]
        ELSE [raised |-> "none", calls |-> <<d.call>>, outputs |-> <<d.out>>,
              post |-> [metadata |-> Put(m2, "Description", StrV(d.out)),
                        content |-> loaded.content]]

\* save_file: the dumped post replaces the file's text.
save_file(fs, file_path, post) ==
    [fs EXCEPT ![file_path] = FrontmatterDumps(post)]

\* A process_file that saves in a finally clause of the enrichment.
SaveDespiteGeneration(raised) == raised \in {"none", "GenerationError"}

\* process_file, lines 101-103: save_file runs when get_file and
\* process_post have returned.
SaveReached(raised) == raised = "none"

\* A process_file with the first except clause only.
CatchesNotFoundOnly(exc) == exc = "FileNotFoundError"

\* process_file, lines 105-108: FileNotFoundError and Exception are caught.
Catches(exc) == exc \in {"FileNotFoundError", "YAMLError", "GenerationError"}

\* An md_files without the exists() check.
FolderCheckSkipsExists(f) == IF f = "file" THEN "NotADirectoryError" ELSE "none"

\* md_files, lines 87-91: what the folder check raises.
FolderCheck(f) ==
    CASE f = "missing" -> "FileNotFoundError"
      [] f = "file"    -> "NotADirectoryError"
      [] OTHER         -> "none"

\* process_file's try block on one path: what it raised ("none" when it
\* printed success), the files after it, and what the pass did.
process_file(fs, st, file, gen, now) ==
    LET g == get_file(fs, st, file)
        r == process_post(g.data, gen)
        raised == IF g.raised THEN "FileNotFoundError" ELSE r.raised
        saved == SaveReached(raised)
        fs2 == IF saved THEN save_file(fs, file, r.post) ELSE fs
    IN  [raised |-> raised,
         disk   |-> fs2,
         stat   |-> IF saved THEN [st EXCEPT ![file].ctime = now] ELSE st,
         pass   |-> [stem     |-> file,
                     before   |-> fs[file],
                     creation |-> g.data.creation_date,
                     outcome  |-> raised,
                     meta0    |-> IF g.raised THEN EmptyMap
                                  ELSE FrontmatterLoads(g.data.text).metadata,
                     post     |-> IF g.raised
                                  THEN [metadata |-> EmptyMap, content |-> <<>>]
                                  ELSE r.post,
                     calls    |-> IF g.raised THEN <<>> ELSE r.calls,
                     outputs  |-> IF g.raised THEN <<>> ELSE r.outputs,
                     wrote    |-> saved,
                     after    |-> fs2[file]]]

\* ------------------------------------------------------------ the machine

\* The orders in which glob may yield the notes that exist.
Listings(fs) ==
    LET present == {f \in Files : fs[f].kind # "absent"}
    IN  {o \in [1..Cardinality(present) -> present] :
            \A i, j \in 1..Cardinality(present) : o[i] = o[j] => i = j}

\* A text of 2002 characters.
LongText == [i \in 1..(ExcerptLimit + 2) |-> IF i <= ExcerptLimit THEN "x" ELSE "y"]

\* A block from its lines, given as <<key, scalar>> pairs.
Block(lines) ==
    [k \in {l[1] : l \in lines} |-> (CHOOSE l \in lines : l[1] = k)[2]]

ADate == <<"2","0","2","0","-","0","1","-","0","2">>

\* The texts the first note may hold when a run starts: without a block,
\* with one that does not parse, and with blocks holding some of the keys
\* as strings, numbers, a date, an empty string.
InitTexts ==
    {PlainText(<<>>), PlainText(<<" ","b","\n">>), PlainText(LongText),
     MalformedText(<<"\n","b">>)}
    \cup {BlockText(Block(ls), <<"\n","b","\n">>) : ls \in {
        {<<"Title", Plain(<<"7">>)>>},
        {<<"Title", Plain(<<"0">>)>>},
        {<<"Created", Plain(ADate)>>, <<"Title", Plain(<<"7">>)>>,
         <<"Description", Plain(<<"d">>)>>},
        {<<"Title", Plain(<<"T">>)>>, <<"Tags", Plain(<<"x">>)>>,
         <<"Description", Quoted(<<>>)>>},
        {<<"Created", Plain(<<"0">>)>>, <<"Title", Plain(<<"T">>)>>,
         <<"Description", Plain(<<"d">>)>>},
        {<<"Created", Quoted(<<"c">>)>>, <<"Description", Plain(<<"0">>)>>} }}

\* The text of the second note: a note that has all three keys.
OtherTexts ==
    {BlockText(Block({<<"Created", Plain(ADate)>>, <<"Title", Plain(<<"T">>)>>,
                      <<"Description", Plain(<<"d">>)>>}), <<"\n","b">>)}

Earlier(d, e) == <<d.y, d.m, d.d>> = <<e.y, e.m, e.d>>
                 \/ d.y < e.y
                 \/ (d.y = e.y /\ d.m < e.m)
                 \/ (d.y = e.y /\ d.m = e.m /\ d.d < e.d)

FirstDate == CHOOSE d \in Dates : \A e \in Dates : Earlier(d, e)

NoProbe == [stem |-> <<>>, title |-> <<>>, done |-> FALSE]

Init ==
    /\ folder \in {"missing", "file", "dir"}
    /\ disk \in IF folder = "dir"
                THEN {[f \in Files |->
                         IF f = On THEN t2 ELSE t1] :
                      t1 \in InitTexts, t2 \in OtherTexts}
                ELSE {[f \in Files |-> Absent]}
    /\ \E hb \in BOOLEAN :
          stat = [f \in Files |->
                     [hasBirth |-> hb, birth |-> FirstDate, ctime |-> FirstDate]]
    /\ pc = "idle"
    /\ err = "none"
    /\ runs = 0
    /\ enum = <<>>
    /\ idx = 0
    /\ log = <<>>
    /\ writes = 0
    /\ gens = 0
    /\ passes = [f \in Files |-> <<>>]
    /\ probe = NoProbe

\* main: md_files checks the folder and lists it; a failed check ends the run.
MainStart ==
    /\ pc # "loop"
    /\ runs < MaxRuns
    /\ runs' = runs + 1
    /\ idx' = 0
    /\ log' = <<>>
    /\ writes' = 0
    /\ gens' = 0
    /\ \/ /\ FolderCheck(folder) # "none"
          /\ pc' = "crash"
          /\ err' = FolderCheck(folder)
          /\ enum' = <<>>
       \/ /\ FolderCheck(folder) = "none"
          /\ pc' = "loop"
          /\ err' = "none"
          /\ enum' \in Listings(disk)
    /\ UNCHANGED <<folder, disk, stat, passes, probe>>

\* main's loop body: process_file on the next path; an exception that
\* process_file does not catch ends the run.
ProcessFile ==
    /\ pc = "loop"
    /\ idx < Len(enum)
    /\ \E gen \in GenResponses :
       \E now \in {d \in Dates : Earlier(stat[enum[idx + 1]].ctime, d)} :
       \E r \in {process_file(disk, stat, enum[idx + 1], gen, now)} :
          /\ disk' = r.disk
          /\ stat' = r.stat
          /\ passes' = [passes EXCEPT ![enum[idx + 1]] = Append(@, r.pass)]
          /\ log' = Append(log, [file |-> enum[idx + 1], outcome |-> r.raised])
          /\ writes' = writes + (IF r.pass.wrote THEN 1 ELSE 0)
          /\ gens' = gens + Len(r.pass.calls)
          /\ idx' = idx + 1
          /\ IF r.raised = "none" \/ Catches(r.raised)
             THEN pc' = "loop" /\ err' = "none"
             ELSE pc' = "crash" /\ err' = r.raised
    /\ UNCHANGED <<folder, runs, enum, probe>>

\* main's loop ends when the listing is exhausted.
MainExit ==
    /\ pc = "loop"
    /\ idx = Len(enum)
    /\ pc' = "exit"
    /\ UNCHANGED <<folder, disk, stat, err, runs, enum, idx, log, writes,
                   gens, passes, probe>>

\* Outside the program: the next note is removed before its turn.
Unlink ==
    /\ pc = "loop"
    /\ idx < Len(enum)
    /\ disk[enum[idx + 1]].kind # "absent"
    /\ disk' = [disk EXCEPT ![enum[idx + 1]] = Absent]
    /\ UNCHANGED <<folder, stat, pc, err, runs, enum, idx, log, writes, gens,
                   passes, probe>>

Next == MainStart \/ ProcessFile \/ MainExit \/ Unlink

Spec == Init /\ [][Next]_vars

\* ProcessFile's guard: a generator response and a time of writing always
\* exist.
ProcessFileEnabled == pc = "loop" /\ idx < Len(enum)

\* A run that can take its next step takes it: main is a loop that nothing
\* suspends, and a call of the generator returns or fails.  The second
\* conjunct is WF_vars(ProcessFile) with ENABLED written out.
FairSpec ==
    /\ Init /\ [][Next]_vars
    /\ WF_vars(MainExit)
    /\ ([]<>~ProcessFileEnabled \/ []<><<ProcessFile>>_vars)

\* ------------------------------------------------ the title of a stem

StemChars == {"a", "B", "_", "2"}

\* The stems create_title is probed with: every stem over StemChars up to
\* MaxStemLen, and pytexas_2024.
Stems == UNION {[1..n -> StemChars] : n \in 1..MaxStemLen}
         \cup {Pytexas2024}

TitleInit ==
    /\ folder = "dir"
    /\ disk = [f \in Files |-> Absent]
    /\ stat = [f \in Files |->
                  [hasBirth |-> FALSE, birth |-> FirstDate, ctime |-> FirstDate]]
    /\ pc = "idle"
    /\ err = "none"
    /\ runs = 0
    /\ enum = <<>>
    /\ idx = 0
    /\ log = <<>>
    /\ writes = 0
    /\ gens = 0
    /\ passes = [f \in Files |-> <<>>]
    /\ probe \in {[stem |-> s, title |-> <<>>, done |-> FALSE] : s \in Stems}

\* create_title on a file of the probed stem.
CreateTitle ==
    /\ ~probe.done
    /\ probe' = [probe EXCEPT
                    !.title = create_title(FileData(Absent, probe.stem, FirstDate)),
                    !.done = TRUE]
    /\ UNCHANGED <<folder, disk, stat, pc, err, runs, enum, idx, log, writes,
                   gens, passes>>

TitleNext == CreateTitle

TitleSpec == TitleInit /\ [][TitleNext]_vars

\* ------------------------------------------------------------ the claims

\* Split on underscores, capitalize the first letter of each word and leave
\* the rest of it, join with spaces.
RefTitle(s) ==
    [i \in 1..Len(s) |->
        IF s[i] = "_" THEN " "
        ELSE IF i = 1 \/ s[i - 1] = "_" THEN ToUpper(s[i]) ELSE s[i]]

\* C8 as stated: for every stem the title is the reference's, the stem with
\* underscores as spaces and each underscore-separated word capitalized, the
\* rest unchanged.
C8_TitleIsReference == probe.done => probe.title = RefTitle(probe.stem)

\* C8, amended: the title has the stem's length; an underscore becomes a
\* space; a letter that follows a letter is lowercased and any other letter
\* is uppercased (so a word starts after any character that is no letter, a
\* digit included); every other character is kept; pytexas_2024 gives
\* Pytexas 2024.
C8_TitleOfStem ==
    probe.done =>
        /\ Len(probe.title) = Len(probe.stem)
        /\ \A i \in 1..Len(probe.stem) :
              LET c == probe.stem[i]
              IN  probe.title[i] =
                     IF c = "_" THEN " "
                     ELSE IF ~IsCased(c) THEN c
                     ELSE IF i > 1 /\ IsCased(probe.stem[i - 1])
                     THEN ToLower(c) ELSE ToUpper(c)
        /\ (probe.stem = Pytexas2024 =>
               probe.title = <<"P","y","t","e","x","a","s"," ","2","0","2","4">>)

\* A stem whose title lowercases a capital and capitalizes after a digit.
C8_Witness ==
    /\ probe.done
    /\ \E i \in 1..Len(probe.stem) :
          IsUpper(probe.stem[i]) /\ IsLower(probe.title[i])
    /\ \E i \in 2..Len(probe.stem) :
          IsDigit(probe.stem[i - 1]) /\ IsLower(probe.stem[i])
          /\ IsUpper(probe.title[i])

\* Every pass of process_file made so far, on any note.
PassSet == UNION {{passes[f][i] : i \in 1..Len(passes[f])} : f \in Files}

Three == {"Created", "Title", "Description"}

\* process_post returned (and the post was saved).
Enriched(p) == p.outcome = "none"

\* process_post got past frontmatter.loads.
Parsed(p) == p.outcome \in {"none", "GenerationError"}

\* A value that is there and is not empty: not None, not the empty string.
NonEmpty(v) == v.t # "none" /\ ~(v.t = "str" /\ v.s = <<>>)

\* C1 as stated: process_post removes no key, and a key of Created, Title,
\* Description that held a non-empty value before it holds the same value
\* after it.
C1_KeepsNonEmpty ==
    \A p \in PassSet :
        Enriched(p) =>
            /\ DOMAIN p.meta0 \subseteq DOMAIN p.post.metadata
            /\ \A k \in Three \cap DOMAIN p.meta0 :
                  NonEmpty(p.meta0[k]) => p.post.metadata[k] = p.meta0[k]

\* ... which does hold of the values Python takes as true.
C1_KeepsTruthy ==
    \A p \in PassSet :
        Enriched(p) =>
            /\ DOMAIN p.meta0 \subseteq DOMAIN p.post.metadata
            /\ \A k \in Three \cap DOMAIN p.meta0 :
                  Truthy(p.meta0[k]) => p.post.metadata[k] = p.meta0[k]

\* C3: a pass that raised (no file, YAML that does not parse, a failed
\* generation) wrote nothing and left the note's text as it was, whatever it
\* had computed in memory; a pass wrote only when it raised nothing.
C3_WriteOnlyAfterEnrich ==
    \A p \in PassSet :
        /\ p.outcome # "none" => ~p.wrote /\ p.after = p.before
        /\ p.wrote => p.outcome = "none" /\ p.before.kind # "absent"
                      /\ p.after = FrontmatterDumps(p.post)

\* A failed generation after Created and Title were set in memory.
C3_Witness ==
    \E p \in PassSet :
        /\ p.outcome = "GenerationError"
        /\ "Created" \notin DOMAIN p.meta0
        /\ "Title" \notin DOMAIN p.meta0
        /\ {"Created", "Title"} \subseteq DOMAIN p.post.metadata
        /\ p.after = p.before

\* The text after the block's closing delimiter and the blank line.
BodyOf(text) == Drop(text.rest, 2)

\* C5 as stated: a note without a block that was processed has exactly the
\* three keys, and its body is the original text, byte for byte.
C5_BodyIdentical ==
    \A p \in PassSet :
        p.before.kind = "plain" /\ Enriched(p) =>
            /\ p.after.kind = "block"
            /\ DOMAIN p.after.fm = Three
            /\ BodyOf(p.after) = p.before.rest

\* C5, amended: a note without a block that was processed has exactly the
\* three keys, and its body is the original text with the whitespace it
\* starts and ends with removed.
C5_BodyStripped ==
    \A p \in PassSet :
        p.before.kind = "plain" /\ Enriched(p) =>
            /\ p.after.kind = "block"
            /\ DOMAIN p.after.fm = Three
            /\ BodyOf(p.after) = Strip(p.before.rest)

\* A processed note without a block whose text ended with a newline.
C5_Witness ==
    \E p \in PassSet :
        /\ p.before.kind = "plain" /\ Enriched(p)
        /\ p.before.rest # <<>>
        /\ p.before.rest[Len(p.before.rest)] = "\n"

\* C6: a run on a folder that does not exist ended with FileNotFoundError,
\* one on a path that is no folder with NotADirectoryError; it listed
\* nothing, wrote nothing, called the generator never, and no pass was made.
C6_FolderErrorsFatal ==
    runs > 0 /\ folder # "dir" =>
        /\ pc = "crash"
        /\ err = (IF folder = "missing" THEN "FileNotFoundError"
                  ELSE "NotADirectoryError")
        /\ enum = <<>> /\ log = <<>>
        /\ writes = 0 /\ gens = 0
        /\ PassSet = {}

\* A run on a missing folder has ended.
C6_Witness == runs > 0 /\ folder = "missing" /\ pc = "crash"

\* Pass i of note f started from no key of the three.
Fresh(p) == Three \cap DOMAIN p.meta0 = {}

\* Pass i + 1 of note f read what pass i of it wrote.
Consecutive(f, i) ==
    /\ i + 1 <= Len(passes[f])
    /\ Enriched(passes[f][i])
    /\ passes[f][i + 1].before = passes[f][i].after

\* C2 as stated: a pass on a note with none of the three keys leaves all
\* three with non-empty values, whatever the generator returned, and the
\* next pass on what it wrote changes no value and calls no generator.
C2_FillsThenNoOp ==
    \A f \in Files : \A i \in 1..Len(passes[f]) :
        LET p == passes[f][i]
        IN  Fresh(p) /\ Enriched(p) =>
               /\ \A k \in Three : k \in DOMAIN p.post.metadata
                                   /\ NonEmpty(p.post.metadata[k])
               /\ Consecutive(f, i) =>
                     /\ Enriched(passes[f][i + 1])
                     /\ passes[f][i + 1].calls = <<>>
                     /\ passes[f][i + 1].post.metadata = p.post.metadata

\* C2, amended: a pass on a note with none of the three keys leaves all
\* three keys, Created and Title non-empty and Description what the
\* generator returned; when that is not the empty string, Description is
\* non-empty too and the next pass on what was written calls no generator,
\* changes no value and writes the same text again.
C2_FillsThenNoOpUnlessEmpty ==
    \A f \in Files : \A i \in 1..Len(passes[f]) :
        LET p == passes[f][i]
        IN  Fresh(p) /\ Enriched(p) =>
               /\ Three \subseteq DOMAIN p.post.metadata
               /\ NonEmpty(p.post.metadata["Created"])
               /\ NonEmpty(p.post.metadata["Title"])
               /\ Len(p.outputs) = 1
               /\ p.post.metadata["Description"] = StrV(p.outputs[1])
               /\ p.outputs[1] # <<>> /\ Consecutive(f, i) =>
                     /\ Enriched(passes[f][i + 1])
                     /\ passes[f][i + 1].calls = <<>>
                     /\ passes[f][i + 1].post.metadata = p.post.metadata
                     /\ passes[f][i + 1].after = p.after

\* A note without any of the keys was enriched and then processed again.
C2_Witness ==
    \E f \in Files :
        /\ Len(passes[f]) >= 2
        /\ Fresh(passes[f][1]) /\ Enriched(passes[f][1])
        /\ passes[f][1].outputs[1] # <<>>
        /\ Consecutive(f, 1)
        /\ passes[f][2].wrote

\* The Created value a text holds (None without one).
CreatedOf(text) == Get(FrontmatterLoads(text).metadata, "Created")

\* C7: after a pass of a note that succeeded, every later pass that finds
\* the note leaves the same Created in the file, whatever creation time
\* that pass resolved; and a successful pass that found Created missing or
\* empty left the date of the creation time it resolved, as YYYY-MM-DD.
C7_CreatedNeverRecomputed ==
    \A f \in Files : \A i \in 1..Len(passes[f]) :
        LET p == passes[f][i]
        IN  Enriched(p) =>
               /\ \A j \in (i + 1)..Len(passes[f]) :
                     passes[f][j].after.kind # "absent" =>
                        CreatedOf(passes[f][j].after) = CreatedOf(p.after)
               /\ ~NonEmpty(Get(p.meta0, "Created")) =>
                     /\ CreatedOf(p.after) = StrV(Strftime(p.creation))
                     /\ IsDateText(CreatedOf(p.after).s)
               /\ (disk[f].kind # "absent" => CreatedOf(disk[f]) = CreatedOf(p.after))

\* Created was set by one pass, and a later pass of the note, which resolved
\* another creation time, succeeded.
C7_Witness ==
    \E f \in Files :
        /\ Len(passes[f]) >= 2
        /\ Enriched(passes[f][1]) /\ Enriched(passes[f][2])
        /\ "Created" \notin DOMAIN passes[f][1].meta0
        /\ passes[f][2].creation # passes[f][1].creation

\* C9 as stated: a Title that is non-empty and no str is the str of it in
\* the metadata after process_post, the generator is given that str, and
\* the metadata's Title is a str after every enrichment.
C9_TitleCoercedInMetadata ==
    \A p \in PassSet :
        Enriched(p) =>
            /\ p.post.metadata["Title"].t = "str"
            /\ "Title" \in DOMAIN p.meta0 /\ NonEmpty(p.meta0["Title"])
               /\ p.meta0["Title"].t # "str" =>
                  /\ p.post.metadata["Title"] = StrV(PyStr(p.meta0["Title"]))
                  /\ \A c \in 1..Len(p.calls) :
                        p.calls[c].title = PyStr(p.meta0["Title"])

\* C9, amended: a Title that Python takes as true and that is no str (a
\* number other than 0) stays in the metadata as it is, not coerced, and
\* the generator, when it is called, is given the str of it.
C9_TitleCoercedForGenerator ==
    \A p \in PassSet :
        Parsed(p) /\ "Title" \in DOMAIN p.meta0 /\ Truthy(p.meta0["Title"])
        /\ p.meta0["Title"].t # "str" =>
            /\ p.post.metadata["Title"] = p.meta0["Title"]
            /\ Enriched(p) => YamlLoad(p.after.fm["Title"]) = p.meta0["Title"]
            /\ \A c \in 1..Len(p.calls) :
                  p.calls[c].title = PyStr(p.meta0["Title"])

\* A note whose Title is a number was described by the generator.
C9_Witness ==
    \E p \in PassSet :
        /\ Enriched(p)
        /\ "Title" \in DOMAIN p.meta0 /\ p.meta0["Title"].t = "int"
        /\ Truthy(p.meta0["Title"])
        /\ Len(p.calls) = 1

\* The title process_post has after its second step.
TitleAfterStepTwo(p) ==
    IF Truthy(Get(p.meta0, "Title")) THEN PyStr(p.meta0["Title"])
    ELSE Replace(StrTitle(p.stem), "_", " ")

\* C10 as stated: with Description absent or empty the generator is called
\* once, with the title of step 2 and the first 2000 characters of the
\* text, and the result is stored trimmed; with a non-empty Description it
\* is not called.
C10_DescriptionTrimmed ==
    \A p \in PassSet :
        Parsed(p) =>
            IF ~NonEmpty(Get(p.meta0, "Description"))
            THEN /\ Len(p.calls) = 1
                 /\ p.calls[1].title = TitleAfterStepTwo(p)
                 /\ p.calls[1].excerpt = Take(Chars(p.before), ExcerptLimit)
                 /\ Enriched(p) =>
                       p.post.metadata["Description"] = StrV(Strip(p.outputs[1]))
            ELSE p.calls = <<>>

\* C10, amended: with Description absent or a value Python takes as false
\* (None, the empty string, 0) the generator is called once, with the title
\* of step 2 and the first 2000 characters of the text, and the result is
\* stored as returned, untrimmed; with any other Description it is not
\* called.
C10_DescriptionAsReturned ==
    \A p \in PassSet :
        Parsed(p) =>
            IF ~Truthy(Get(p.meta0, "Description"))
            THEN /\ Len(p.calls) = 1
                 /\ p.calls[1].title = TitleAfterStepTwo(p)
                 /\ p.calls[1].excerpt = Take(Chars(p.before), ExcerptLimit)
                 /\ Len(p.calls[1].excerpt) <= ExcerptLimit
                 /\ Enriched(p) =>
                       /\ Len(p.outputs) = 1
                       /\ p.post.metadata["Description"] = StrV(p.outputs[1])
                       /\ YamlLoad(p.after.fm["Description"]) = StrV(p.outputs[1])
            ELSE p.calls = <<>> /\ p.outputs = <<>>

\* A note longer than 2000 characters was described, and the generator's
\* answer started and ended with whitespace.
C10_Witness ==
    \E p \in PassSet :
        /\ Enriched(p)
        /\ Len(Chars(p.before)) > ExcerptLimit
        /\ Len(p.calls) = 1
        /\ Len(p.calls[1].excerpt) = ExcerptLimit
        /\ p.outputs[1] # Strip(p.outputs[1])

\* What holds of a run at every moment: it has processed the first idx
\* paths of the listing, each once and in the listing's order, whatever a
\* path's pass raised; it has not ended on an exception; it ends only
\* after the last path.
Isolated ==
    folder = "dir" /\ runs > 0 =>
        /\ pc \in {"loop", "exit"}
        /\ Len(log) = idx /\ idx <= Len(enum)
        /\ \A i \in 1..idx : log[i].file = enum[i]
        /\ \A i, j \in 1..Len(enum) : enum[i] = enum[j] => i = j
        /\ pc = "exit" => idx = Len(enum)

\* C4: every path listed after one whose pass failed is still processed,
\* once and in order, and the run ends after the last path.
C4_ErrorsIsolated == []Isolated /\ ((pc = "loop") ~> (pc = "exit"))

\* A run has ended in which the first path's pass failed and the second
\* path's pass succeeded.
C4_Witness ==
    /\ pc = "exit" /\ Len(log) = 2
    /\ log[1].outcome \in {"FileNotFoundError", "YAMLError", "GenerationError"}
    /\ log[2].outcome = "none"

====
